---- MODULE Spec2Model ----
(***************************************************************************)
(* CodeLens web UI: the analysis history page (selection of two analyses), *)
(* the analysis compare page (language and file comparison), the analysis  *)
(* results page (status polling), the useAnalysis polling hook and the     *)
(* AnalysisProgress component.                                             *)
(*                                                                         *)
(* React state is modelled by one variable per useState cell.  A handler   *)
(* is one action: its state updates, the re-render they cause and the      *)
(* effects that re-render commits are taken together.  HTTP requests in    *)
(* flight are explicit, their responses arrive in any order.               *)
(***************************************************************************)
EXTENDS Integers, Sequences, FiniteSets, Bags, TLC

\* ------------------------------------------------------------------ bounds
MaxAnalysisId == 3      \* analyses known to the back end: ids 1..MaxAnalysisId
MaxParamLen == 3        \* longest ids= query parameter typed by hand
MaxBatches == 1         \* compare page: result batches in flight

AnalysisIds == 1..MaxAnalysisId

\* A query parameter is a string: a sequence of characters.  An analysis id
\* is one character 1..MaxAnalysisId, the comma is the character 0.
Comma == 0
NoParam == <<-1>>               \* searchParams.get('ids') === null
ParamChars == {Comma} \cup AnalysisIds

VARIABLES
    \* back end
    stored,             \* the result document of every analysis id
    \* AnalysisHistoryPage
    hpMounted,          \* the page is on screen
    hpLoaded,           \* the analyses list has been fetched
    hpCompleted,        \* ids of the listed analyses whose status is 'completed'
    selectedAnalyses,   \* useState([]): ids in order of selection
    hpToggled,          \* argument of the last toggleAnalysisSelection, 0: none
    hpBefore,           \* selectedAnalyses when that call was made
    \* AnalysisComparePage
    cpMounted,
    cpParam,            \* the ids= query parameter, NoParam when absent
    cpEffectPending,    \* a render was committed whose effect has not run yet
    analyses,           \* useState([]): the loaded result documents
    cpLoading,          \* useState(true)
    cpError,            \* useState(null): "null", "select_two" or "request"
    cpBatches,          \* Promise.all batches in flight: bag of id lists
    \* AnalysisResultsPage
    rpMounted,
    rpAnalysisId,       \* useParams().analysisId
    analysis,           \* useState(null): the status last stored, "null" if none
    results,            \* useState(null): id whose results are stored, 0 if none
    rpLoading,          \* useState(true)
    loadingResults,     \* useState(false)
    rpError,            \* useState(null): TRUE when an error is stored
    rpInterval,         \* `interval` of the effect last run, 0 when undefined
    rpTimers,           \* live setInterval timers: [handle, id, results]
    rpStatusReqs,       \* getAnalysisStatus calls in flight: bag of [id, results]
    rpResultsReqs,      \* getAnalysisResults calls in flight: bag of ids
    \* useAnalysis().pollAnalysisStatus
    uaTimer,            \* "none", "active" or "cleared"
    uaAnalysisId,       \* the analysisId argument
    uaOnComplete,       \* an onComplete callback was passed
    uaReqs,             \* bag of ids whose status request is in flight
    uaStarted,          \* ids of the status requests started, in order
    uaReturned,         \* what the polls resolved to, in order ("null": failure)
    uaCompleted,        \* arguments of the onComplete calls, in order
    analysisStatus,     \* useState(null) of the hook: status stored, or "null"
    uaLoading,          \* useApi: useState(false)
    uaError,            \* useApi: useState(null), TRUE when an error is stored
    \* AnalysisProgress
    apMounted,
    apAnalysisId,       \* the analysisId prop
    apStatus,           \* analysisStatus.status, initially 'pending'
    apError,            \* analysisStatus.error: "null", "server" or "fetch"
    apLoading,          \* useState(true)
    apTimer,            \* the interval of the effect last run is live
    apReqs,             \* bag of ids whose status request is in flight
    apRequested,        \* ids of the status requests issued, in order
    apCompleted,        \* arguments (status) of the onComplete calls, in order
    \* api-gateway
    gwRequest,          \* the request last received: [method, url]
    gwAnswer,           \* who answered it, and the request the proxy sent on
    gwServed,           \* exchanges completed so far
    \* useApi
    apiLoading,         \* useState(false)
    apiError,           \* useState(null): "null" or the error stored
    apiCalls,           \* callApi calls awaiting apiCall(): bag of [onSuccess, onError]
    apiSettled,         \* how the call that settled last went
    \* apiClient
    acReqs,             \* requests in flight: bag of methods
    acRaw,              \* what axios made of the request that settled last
    acSettled           \* what the caller of apiClient got for it

hpVars == <<hpMounted, hpLoaded, hpCompleted, selectedAnalyses, hpToggled, hpBefore>>
cpVars == <<cpMounted, cpParam, cpEffectPending, analyses, cpLoading, cpError, cpBatches>>
rpVars == <<rpMounted, rpAnalysisId, analysis, results, rpLoading, loadingResults,
            rpError, rpInterval, rpTimers, rpStatusReqs, rpResultsReqs>>
uaVars == <<uaTimer, uaAnalysisId, uaOnComplete, uaReqs, uaStarted, uaReturned,
            uaCompleted, analysisStatus, uaLoading, uaError>>
apVars == <<apMounted, apAnalysisId, apStatus, apError, apLoading, apTimer, apReqs,
            apRequested, apCompleted>>
gwVars == <<gwRequest, gwAnswer, gwServed>>
apiVars == <<apiLoading, apiError, apiCalls, apiSettled>>
acVars == <<acReqs, acRaw, acSettled>>
\* What the pages above never write: the back end's documents, the gateway,
\* a useApi hook of its own, the axios client.
svcVars == <<stored, gwVars, apiVars, acVars>>
vars == <<svcVars, hpVars, cpVars, rpVars, uaVars, apVars>>

\* ------------------------------------------------------- string helpers
RECURSIVE Split(_)
RECURSIVE SplitAll(_)
SplitAll(s) ==
    IF \A i \in 1..Len(s) : s[i] # Comma
    THEN <<s>>
    ELSE LET k == CHOOSE i \in 1..Len(s) :
                      s[i] = Comma /\ \A j \in 1..(i-1) : s[j] # Comma
         IN  <<SubSeq(s, 1, k-1)>> \o SplitAll(SubSeq(s, k+1, Len(s)))
\* split(',', 2): the parts after the second are dropped.
SplitLimitTwo(s) ==
    LET parts == SplitAll(s)
    IN  SubSeq(parts, 1, IF Len(parts) < 2 THEN Len(parts) ELSE 2)
\* String.prototype.split(','): the parts between commas, empty parts kept.
Split(s) ==
    IF \A i \in 1..Len(s) : s[i] # Comma
    THEN <<s>>
    ELSE LET k == CHOOSE i \in 1..Len(s) :
                      s[i] = Comma /\ \A j \in 1..(i-1) : s[j] # Comma
         IN  <<SubSeq(s, 1, k-1)>> \o Split(SubSeq(s, k+1, Len(s)))

RECURSIVE Join(_)
\* Array.prototype.join(','): each id printed as its character.
Join(ids) ==
    IF Len(ids) = 0 THEN <<>>
    ELSE IF Len(ids) = 1 THEN <<ids[1]>>
    ELSE <<ids[1], Comma>> \o Join(Tail(ids))

\* const analysisIds = searchParams.get('ids')?.split(',') || [];
analysisIds == IF cpParam = NoParam THEN <<>> ELSE Split(cpParam)

Includes(seq, x) == \E i \in 1..Len(seq) : seq[i] = x
Filter(seq, Keep(_)) ==
    LET RECURSIVE F(_)
        F(s) == IF s = <<>> THEN <<>>
                ELSE IF Keep(Head(s)) THEN <<Head(s)>> \o F(Tail(s))
                ELSE F(Tail(s))
    IN  F(seq)
Slice(seq, n) == SubSeq(seq, 1, IF Len(seq) < n THEN Len(seq) ELSE n)

\* ------------------------------------------------- AnalysisHistoryPage
\* toggleAnalysisSelection without the limit of two selections.
ToggleResultNoLimit(sel, id) ==
    IF Includes(sel, id)
    THEN Filter(sel, LAMBDA x : x # id)
    ELSE Append(sel, id)
\* toggleAnalysisSelection replacing the newest selection.
ToggleResultKeepOldest(sel, id) ==
    IF Includes(sel, id)
    THEN Filter(sel, LAMBDA x : x # id)
    ELSE IF Len(sel) < 2
         THEN Append(sel, id)
         ELSE <<sel[1], id>>
\* The new value of selectedAnalyses after toggleAnalysisSelection(id).
ToggleResult(sel, id) ==
    IF Includes(sel, id)
    THEN Filter(sel, LAMBDA x : x # id)
    ELSE IF Len(sel) < 2
         THEN Append(sel, id)
         ELSE <<sel[2], id>>

\* The list request of the page's mount effect succeeds.
HpAnalysesLoaded ==
    /\ hpMounted /\ ~hpLoaded
    /\ hpLoaded' = TRUE
    /\ \E done \in SUBSET AnalysisIds : hpCompleted' = done
    /\ UNCHANGED <<hpMounted, selectedAnalyses, hpToggled, hpBefore>>
    /\ UNCHANGED <<svcVars, cpVars, rpVars, uaVars, apVars>>

\* A click on the checkbox of row id; the checkbox is disabled for an
\* analysis that is not completed unless it is selected.
toggleAnalysisSelection(id) ==
    /\ hpMounted /\ hpLoaded
    /\ id \in hpCompleted \/ Includes(selectedAnalyses, id)
    /\ selectedAnalyses' = ToggleResult(selectedAnalyses, id)
    /\ hpToggled' = id
    /\ hpBefore' = selectedAnalyses
    /\ UNCHANGED <<hpMounted, hpLoaded, hpCompleted, cpVars, svcVars, rpVars, uaVars, apVars>>

\* The Clear Selection button, rendered while something is selected.
ClearSelection ==
    /\ hpMounted /\ Len(selectedAnalyses) > 0
    /\ selectedAnalyses' = <<>>
    /\ hpToggled' = 0
    /\ hpBefore' = <<>>
    /\ UNCHANGED <<hpMounted, hpLoaded, hpCompleted, cpVars, svcVars, rpVars, uaVars, apVars>>

\* A page that is not on screen has no state: unmounting discards it.
HpUnmounted ==
    /\ hpMounted' = FALSE /\ hpLoaded' = FALSE /\ hpCompleted' = {}
    /\ selectedAnalyses' = <<>> /\ hpToggled' = 0 /\ hpBefore' = <<>>
CpUnmounted ==
    /\ cpMounted' = FALSE /\ cpParam' = NoParam /\ cpEffectPending' = FALSE
    /\ analyses' = <<>> /\ cpLoading' = TRUE /\ cpError' = "null"
    /\ cpBatches' = EmptyBag

\* The compare page is mounted for a location with the given ids parameter:
\* the useState initial values, the effect still to run.
CpMount(param) ==
    /\ cpMounted' = TRUE
    /\ cpParam' = param
    /\ cpEffectPending' = TRUE
    /\ analyses' = <<>>
    /\ cpLoading' = TRUE
    /\ cpError' = "null"
    /\ cpBatches' = EmptyBag

\* The Compare Analyses button (rendered while something is selected).
\* Navigation unmounts the history page and mounts the compare page.
handleCompare ==
    /\ hpMounted /\ Len(selectedAnalyses) > 0
    /\ IF Len(selectedAnalyses) = 2
       THEN HpUnmounted /\ CpMount(Join(selectedAnalyses))
       ELSE UNCHANGED <<hpVars, cpVars>>
    /\ UNCHANGED <<svcVars, rpVars, uaVars, apVars>>

\* The history page is opened: fresh state, the list still to be fetched.
HpOpen ==
    /\ ~hpMounted
    /\ hpMounted' = TRUE
    /\ hpLoaded' = FALSE
    /\ hpCompleted' = {}
    /\ selectedAnalyses' = <<>>
    /\ hpToggled' = 0
    /\ hpBefore' = <<>>
    /\ CpUnmounted
    /\ UNCHANGED <<svcVars, rpVars, uaVars, apVars>>

\* --------------------------------------------------- result documents
MaxLanguages == 2       \* languages a distribution can name
MaxCount == 1           \* largest per-language file count
MaxFileCount == 3       \* largest file_count of a document
MaxFiles == 2           \* files a file_summaries map can name

LanguageNames == <<"JavaScript", "Python", "Go", "Rust">>
Languages == {LanguageNames[i] : i \in 1..MaxLanguages}
FileNames == <<"a.js", "b.js", "c.js", "d.js">>
Files == {FileNames[i] : i \in 1..MaxFiles}
Summaries == {"", "text"}       \* a summary is a string, possibly empty

\* A JSON object is its entries in document order (the order of
\* Object.keys): a sequence of <<key, value>> with distinct keys.
Objects(Keys, Vals) ==
    {o \in UNION {[1..n -> Keys \X Vals] : n \in 0..Cardinality(Keys)} :
        \A i, j \in 1..Len(o) : i # j => o[i][1] # o[j][1]}
\* An optional field: present says whether the field exists.
Missing == [present |-> FALSE, entries |-> <<>>]
Present(o) == [present |-> TRUE, entries |-> o]
NoNumber == -1                  \* a numeric field that is missing

ObjectKeys(field) == [i \in 1..Len(field.entries) |-> field.entries[i][1]]
HasKey(field, k) == \E i \in 1..Len(field.entries) : field.entries[i][1] = k
\* field[k] for a key that is there (HasKey); a key that is not there reads
\* as undefined, which the callers treat as falsy.
Lookup(field, k) ==
    field.entries[CHOOSE i \in 1..Len(field.entries) : field.entries[i][1] = k][2]

\* Result documents that differ in their language distribution ...
LanguageDocs ==
    [file_count : {NoNumber},
     language_distribution :
        {Missing} \cup {Present(o) : o \in Objects(Languages, 0..MaxCount)},
     file_summaries : {Missing}]
\* ... in the numbers a percentage is computed from ...
PercentageDocs ==
    [file_count : {NoNumber} \cup (0..MaxFileCount),
     language_distribution :
        {Missing} \cup {Present(o) : o \in Objects({LanguageNames[1]}, 0..MaxFileCount)},
     file_summaries : {Missing}]
\* ... and in what the Code Quality section reads.
FileDocs ==
    [file_count : {NoNumber},
     language_distribution : {Missing},
     file_summaries :
        {Missing} \cup {Present(o) : o \in Objects(Files, Summaries)}]
\* Result documents as the compare page dates them: created_at is the
\* time the analysis was created, a number that grows with time.
Times == 1..MaxAnalysisId
DatedDocs ==
    [file_count : {NoNumber},
     language_distribution : {Missing},
     file_summaries : {Missing},
     created_at : Times]

\* -------------------------------------------------- AnalysisComparePage
\* The effect of the page: fetchAnalyses().  Its dependency analysisIds is
\* a new array in every render, so it runs after every committed render.
fetchAnalyses ==
    /\ cpMounted /\ cpEffectPending
    /\ IF Len(analysisIds) # 2
       THEN \* setError(new Error(...)) stores a new object: another render
            /\ cpError' = "select_two"
            /\ cpLoading' = FALSE
            /\ cpEffectPending' = TRUE
            /\ UNCHANGED <<cpMounted, cpParam, analyses, cpBatches>>
       ELSE \* setLoading(true) re-renders only when loading was false
            /\ BagCardinality(cpBatches) < MaxBatches
            /\ cpLoading' = TRUE
            /\ cpEffectPending' = ~cpLoading
            /\ cpBatches' = cpBatches (+) SetToBag({analysisIds})
            /\ UNCHANGED <<cpMounted, cpParam, analyses, cpError>>
    /\ UNCHANGED <<svcVars, hpVars, rpVars, uaVars, apVars>>

\* Promise.all resolves: every id of the batch names a stored document;
\* results.map(result => result.data) keeps the order of the ids.
IsId(part) == Len(part) = 1 /\ part[1] \in AnalysisIds
CpResolved ==
    /\ cpMounted
    /\ \E batch \in BagToSet(cpBatches) :
         /\ \A i \in 1..Len(batch) : IsId(batch[i])
         /\ cpBatches' = cpBatches (-) SetToBag({batch})
         /\ analyses' = [i \in 1..Len(batch) |-> stored[batch[i][1]]]
    /\ cpError' = "null"
    /\ cpLoading' = FALSE
    /\ cpEffectPending' = TRUE
    /\ UNCHANGED <<cpMounted, cpParam, hpVars, svcVars, rpVars, uaVars, apVars>>

\* Promise.all rejects: one request of the batch failed (no such analysis,
\* a server error, no connection).
CpRejected ==
    /\ cpMounted
    /\ \E batch \in BagToSet(cpBatches) :
         cpBatches' = cpBatches (-) SetToBag({batch})
    /\ cpError' = "request"
    /\ cpLoading' = FALSE
    /\ cpEffectPending' = TRUE
    /\ UNCHANGED <<cpMounted, cpParam, analyses, hpVars, svcVars, rpVars, uaVars, apVars>>

\* The user opens /analysis/compare?ids=... directly (a typed location or
\* a bookmark); whatever page was shown is unmounted.
Params == {NoParam} \cup UNION {[1..n -> ParamChars] : n \in 0..MaxParamLen}
CpOpenAt(param) ==
    /\ CpMount(param)
    /\ HpUnmounted
    /\ UNCHANGED <<svcVars, rpVars, uaVars, apVars>>
CpOpen == \E param \in Params : CpOpenAt(param)
\* The same for the location that names the analyses 1 and 2.
CpOpenPair == CpOpenAt(<<1, Comma, 2>>)

\* ----------------------------------------------------- compareLanguages
Abs(n) == IF n < 0 THEN 0 - n ELSE n

\* toFixed(1) cutting the digits after the first decimal off.
ToFixed1Truncating(num, den) == (10 * num) \div den
\* x.toFixed(1) for x = num/den >= 0: the integer n for which n/10 is
\* nearest to x, the larger on a tie; the string is n with the point put in.
ToFixed1(num, den) == (20 * num + den) \div (2 * den)

\* `languages` as an array that is not a Set: a key of both is there twice.
LanguageListRepeating(an) ==
    ObjectKeys(an[1].language_distribution) \o ObjectKeys(an[2].language_distribution)
\* The Set `languages` as an array: keys of the first distribution in
\* document order, then the keys of the second that are new.
LanguageList(an) ==
    LET k0 == ObjectKeys(an[1].language_distribution)
        k1 == ObjectKeys(an[2].language_distribution)
    IN  k0 \o Filter(k1, LAMBDA l : ~Includes(k0, l))

\* analysis.code?.language_distribution?.[language] || 0
CountOf(doc, language) ==
    IF HasKey(doc.language_distribution, language)
    THEN Lookup(doc.language_distribution, language)
    ELSE 0

\* One element of `percentages`, in tenths of a percent.
PercentageOf(doc, language) ==
    IF CountOf(doc, language) = 0 \/ doc.file_count = NoNumber \/ doc.file_count = 0
    THEN 0
    ELSE ToFixed1(CountOf(doc, language) * 100, doc.file_count)

LanguageEntry(an, language) ==
    LET counts == <<CountOf(an[1], language), CountOf(an[2], language)>>
    IN  [language |-> language,
         counts |-> counts,
         percentages |-> <<PercentageOf(an[1], language), PercentageOf(an[2], language)>>,
         diff |-> counts[2] - counts[1]]

\* The comparator with the tie broken by the first count ascending.
LanguageOrderAscendingTie(a, b) ==
    IF Abs(a.diff) # Abs(b.diff)
    THEN Abs(b.diff) - Abs(a.diff)
    ELSE a.counts[1] - b.counts[1]
\* The comparator passed to sort: negative when a goes before b.
LanguageOrder(a, b) ==
    IF Abs(a.diff) # Abs(b.diff)
    THEN Abs(b.diff) - Abs(a.diff)
    ELSE b.counts[1] - a.counts[1]

\* Array.prototype.sort with that comparator.  The sort is stable:
\* an element is inserted after the elements that do not go behind it.
RECURSIVE InsertSorted(_, _)
InsertSorted(x, sorted) ==
    IF sorted = <<>> THEN <<x>>
    ELSE IF LanguageOrder(Head(sorted), x) > 0 THEN <<x>> \o sorted
    ELSE <<Head(sorted)>> \o InsertSorted(x, Tail(sorted))
RECURSIVE Sort(_)
Sort(seq) ==
    IF seq = <<>> THEN <<>>
    ELSE InsertSorted(seq[Len(seq)], Sort(SubSeq(seq, 1, Len(seq) - 1)))

compareLanguages ==
    IF Len(analyses) # 2 THEN <<>>
    ELSE LET langs == LanguageList(analyses)
         IN  Sort([i \in 1..Len(langs) |-> LanguageEntry(analyses, langs[i])])

\* ------------------------------------------------ Code Quality section
CommonLimit == 5
ListLimit == 6

\* map?.[file] is truthy: the key is there and its summary is not ''.
TruthySummary(field, file) == HasKey(field, file) /\ Lookup(field, file) # ""

\* analyses.some(a => a.code?.file_summaries)
CodeQualityShown ==
    Len(analyses) = 2 /\ \E i \in 1..2 : analyses[i].file_summaries.present

\* The files rendered side by side (Before / After).
CommonFiles ==
    Slice(Filter(ObjectKeys(analyses[1].file_summaries),
                 LAMBDA f : TruthySummary(analyses[2].file_summaries, f)),
          CommonLimit)
\* The files rendered under 'New Files'.
NewFiles ==
    Slice(Filter(ObjectKeys(analyses[2].file_summaries),
                 LAMBDA f : ~TruthySummary(analyses[1].file_summaries, f)),
          ListLimit)
\* The files rendered under 'Removed Files'.
RemovedFiles ==
    Slice(Filter(ObjectKeys(analyses[1].file_summaries),
                 LAMBDA f : ~TruthySummary(analyses[2].file_summaries, f)),
          ListLimit)

\* -------------------------------------------------- AnalysisResultsPage
MaxInFlight == 2        \* requests of one kind in flight
MaxHandles == 2         \* interval handles the browser hands out
PollIntervalMs == 5000  \* setInterval(fetchAnalysisStatus, 5000)

\* Every status the back end reports.
Statuses == {"pending", "in_progress", "running", "analyzing_code",
             "analyzing_dependencies", "analyzing_business",
             "analyzing_architecture", "completed", "failed"}
\* ['pending', 'in_progress'].includes(analysis.status)
PollingStatuses == {"pending", "in_progress"}
\* The analyses the user looks at.
ViewedIds == {1, 2}

\* A render's fetchAnalysisStatus closes over that render's analysisId and
\* results; a request or timer carries the closure that made it.
Closure(id, res) == [id |-> id, results |-> res]
Handles(timers) == {t.handle : t \in timers}
FreeHandle(timers) ==
    CHOOSE h \in 1..MaxHandles :
        h \notin Handles(timers) /\ \A g \in 1..(h-1) : g \in Handles(timers)

\* The effect's cleanup left out: the old interval keeps running.
TimersNotCleared == rpTimers
\* return () => { if (interval) clearInterval(interval); }
TimersAfterCleanup == {t \in rpTimers : t.handle # rpInterval}

\* The effect [analysisId, analysis?.status] runs for a render with the
\* given analysisId and status: the cleanup of the effect before it, then
\* fetchAnalysisStatus() (setLoading(true), the request), then the interval.
\* res is that render's results, reqs the status requests in flight.
RpEffect(id, status, res, reqs) ==
    /\ rpLoading' = TRUE
    /\ rpStatusReqs' = reqs (+) SetToBag({Closure(id, res)})
    /\ IF status \in PollingStatuses
       THEN /\ Cardinality(TimersAfterCleanup) < MaxHandles
            /\ rpInterval' = FreeHandle(TimersAfterCleanup)
            /\ rpTimers' = TimersAfterCleanup \cup
                    {[handle |-> FreeHandle(TimersAfterCleanup),
                      period |-> PollIntervalMs,
                      closure |-> Closure(id, res)]}
       ELSE /\ rpInterval' = 0
            /\ rpTimers' = TimersAfterCleanup

\* The page is opened for analysis id: initial state, first effect.
RpOpen(id) ==
    /\ ~rpMounted
    /\ rpMounted' = TRUE
    /\ rpAnalysisId' = id
    /\ analysis' = "null"
    /\ results' = 0
    /\ loadingResults' = FALSE
    /\ rpError' = FALSE
    /\ rpResultsReqs' = EmptyBag
    /\ RpEffect(id, "null", 0, EmptyBag)
    /\ UNCHANGED <<svcVars, hpVars, cpVars, uaVars, apVars>>

\* The route parameter changes while the page stays mounted: the state is
\* kept, the effect runs again.
RpNavigate(id) ==
    /\ rpMounted /\ id # rpAnalysisId
    /\ BagCardinality(rpStatusReqs) < MaxInFlight
    /\ rpAnalysisId' = id
    /\ RpEffect(id, analysis, results, rpStatusReqs)
    /\ UNCHANGED <<rpMounted, analysis, results, loadingResults, rpError, rpResultsReqs>>
    /\ UNCHANGED <<svcVars, hpVars, cpVars, uaVars, apVars>>

\* An interval fires: fetchAnalysisStatus of the render that set it.
RpTick ==
    /\ rpMounted
    /\ BagCardinality(rpStatusReqs) < MaxInFlight
    /\ \E t \in rpTimers :
          rpStatusReqs' = rpStatusReqs (+) SetToBag({t.closure})
    /\ rpLoading' = TRUE
    /\ UNCHANGED <<rpMounted, rpAnalysisId, analysis, results, loadingResults,
                   rpError, rpInterval, rpTimers, rpResultsReqs>>
    /\ UNCHANGED <<svcVars, hpVars, cpVars, uaVars, apVars>>

\* A status request is answered with status s.  fetchAnalysisStatus stores
\* it, starts fetchAnalysisResults() if it is 'completed' and its render had
\* no results, clears the error and loading; a changed status re-runs the
\* effect.
RpStatusOk(r, s) ==
    /\ rpMounted /\ BagIn(r, rpStatusReqs)
    /\ analysis' = s
    /\ IF s = "completed" /\ r.results = 0
       THEN /\ BagCardinality(rpResultsReqs) < MaxInFlight
            /\ loadingResults' = TRUE
            /\ rpResultsReqs' = rpResultsReqs (+) SetToBag({r.id})
       ELSE UNCHANGED <<loadingResults, rpResultsReqs>>
    /\ rpError' = FALSE
    /\ IF s # analysis
       THEN RpEffect(rpAnalysisId, s, results, rpStatusReqs (-) SetToBag({r}))
       ELSE /\ rpLoading' = FALSE
            /\ rpStatusReqs' = rpStatusReqs (-) SetToBag({r})
            /\ UNCHANGED <<rpInterval, rpTimers>>
    /\ UNCHANGED <<rpMounted, rpAnalysisId, results>>
    /\ UNCHANGED <<svcVars, hpVars, cpVars, uaVars, apVars>>

\* A status request fails: catch, finally.
RpStatusFailed(r) ==
    /\ rpMounted /\ BagIn(r, rpStatusReqs)
    /\ rpStatusReqs' = rpStatusReqs (-) SetToBag({r})
    /\ rpError' = TRUE
    /\ rpLoading' = FALSE
    /\ UNCHANGED <<rpMounted, rpAnalysisId, analysis, results, loadingResults,
                   rpInterval, rpTimers, rpResultsReqs>>
    /\ UNCHANGED <<svcVars, hpVars, cpVars, uaVars, apVars>>

\* The Load Results / Refresh Results buttons: fetchAnalysisResults().
RpLoadResults ==
    /\ rpMounted /\ ~rpError /\ ~loadingResults
    /\ analysis \notin {"null", "failed"} \cup PollingStatuses
    /\ results = 0 \/ analysis = "completed"
    /\ BagCardinality(rpResultsReqs) < MaxInFlight
    /\ loadingResults' = TRUE
    /\ rpResultsReqs' = rpResultsReqs (+) SetToBag({rpAnalysisId})
    /\ UNCHANGED <<rpMounted, rpAnalysisId, analysis, results, rpLoading, rpError,
                   rpInterval, rpTimers, rpStatusReqs>>
    /\ UNCHANGED <<svcVars, hpVars, cpVars, uaVars, apVars>>

\* A results request is answered.
RpResultsOk(id) ==
    /\ rpMounted /\ BagIn(id, rpResultsReqs)
    /\ rpResultsReqs' = rpResultsReqs (-) SetToBag({id})
    /\ results' = id
    /\ rpError' = FALSE
    /\ loadingResults' = FALSE
    /\ UNCHANGED <<rpMounted, rpAnalysisId, analysis, rpLoading, rpInterval,
                   rpTimers, rpStatusReqs>>
    /\ UNCHANGED <<svcVars, hpVars, cpVars, uaVars, apVars>>

\* A results request fails.
RpResultsFailed(id) ==
    /\ rpMounted /\ BagIn(id, rpResultsReqs)
    /\ rpResultsReqs' = rpResultsReqs (-) SetToBag({id})
    /\ rpError' = TRUE
    /\ loadingResults' = FALSE
    /\ UNCHANGED <<rpMounted, rpAnalysisId, analysis, results, rpLoading,
                   rpInterval, rpTimers, rpStatusReqs>>
    /\ UNCHANGED <<svcVars, hpVars, cpVars, uaVars, apVars>>

\* The page is left: the effect's cleanup runs, the state is discarded and
\* the answers to the requests in flight change nothing any more.
RpClose ==
    /\ rpMounted
    /\ rpMounted' = FALSE
    /\ rpTimers' = TimersAfterCleanup
    /\ rpInterval' = 0
    /\ analysis' = "null" /\ results' = 0
    /\ rpLoading' = TRUE /\ loadingResults' = FALSE /\ rpError' = FALSE
    /\ rpStatusReqs' = EmptyBag /\ rpResultsReqs' = EmptyBag
    /\ UNCHANGED <<rpAnalysisId, svcVars, hpVars, cpVars, uaVars, apVars>>

\* What the component returns for its state: the early returns in their
\* order, else the header with renderTabs() and renderTabContent().
View ==
    IF ~rpMounted THEN "none"
    ELSE IF rpLoading /\ analysis = "null" THEN "loading"
    ELSE IF rpError THEN "error"
    ELSE IF analysis = "null" THEN "not found"
    ELSE IF analysis \in PollingStatuses THEN "in progress"
    ELSE IF analysis = "failed" THEN "failed"
    ELSE "tabs"
\* renderTabContent(): without results the spinner or 'Analysis is
\* complete, ...' with the Load Results button, else the active tab.
TabContent ==
    IF results # 0 THEN "active tab"
    ELSE IF loadingResults THEN "loading results"
    ELSE "analysis is complete"

\* ------------------------------------- useAnalysis().pollAnalysisStatus
MaxPolls == 3           \* status requests one poll loop starts

\* The poll loop stopping on 'completed' only.
TerminalOnlyCompleted == {"completed"}
\* status.status === 'completed' || status.status === 'failed'
TerminalStatuses == {"completed", "failed"}

\* pollAnalysisStatus(id, interval, onComplete): setInterval.
pollAnalysisStatus(id, cb) ==
    /\ uaTimer = "none"
    /\ uaTimer' = "active"
    /\ uaAnalysisId' = id
    /\ uaOnComplete' = cb
    /\ UNCHANGED <<uaReqs, uaStarted, uaReturned, uaCompleted, analysisStatus,
                   uaLoading, uaError>>
    /\ UNCHANGED <<svcVars, hpVars, cpVars, rpVars, apVars>>

\* The interval fires: getAnalysisStatus(analysisId) -> callApi, which sets
\* loading, clears error and sends the request.
UaTick ==
    /\ uaTimer = "active"
    /\ Len(uaStarted) < MaxPolls
    /\ uaReqs' = uaReqs (+) SetToBag({uaAnalysisId})
    /\ uaStarted' = Append(uaStarted, uaAnalysisId)
    /\ uaLoading' = TRUE
    /\ uaError' = FALSE
    /\ UNCHANGED <<uaTimer, uaAnalysisId, uaOnComplete, uaReturned, uaCompleted,
                   analysisStatus>>
    /\ UNCHANGED <<svcVars, hpVars, cpVars, rpVars, apVars>>

\* A poll's request is answered with status s: callApi calls onSuccess
\* (setAnalysisStatus), returns the data, clears loading; the poll callback
\* stops the interval and calls onComplete on a terminal status.
UaPollOk(id, s) ==
    /\ BagIn(id, uaReqs)
    /\ uaReqs' = uaReqs (-) SetToBag({id})
    /\ analysisStatus' = s
    /\ uaLoading' = FALSE
    /\ uaReturned' = Append(uaReturned, s)
    /\ IF s \in TerminalStatuses
       THEN /\ uaTimer' = "cleared"
            /\ uaCompleted' = IF uaOnComplete THEN Append(uaCompleted, s)
                                               ELSE uaCompleted
       ELSE UNCHANGED <<uaTimer, uaCompleted>>
    /\ UNCHANGED <<uaAnalysisId, uaOnComplete, uaStarted, uaError>>
    /\ UNCHANGED <<svcVars, hpVars, cpVars, rpVars, apVars>>

\* A poll's request fails: callApi stores the error and returns null.
UaPollFailed(id) ==
    /\ BagIn(id, uaReqs)
    /\ uaReqs' = uaReqs (-) SetToBag({id})
    /\ uaError' = TRUE
    /\ uaLoading' = FALSE
    /\ uaReturned' = Append(uaReturned, "null")
    /\ UNCHANGED <<uaTimer, uaAnalysisId, uaOnComplete, uaStarted, uaCompleted,
                   analysisStatus>>
    /\ UNCHANGED <<svcVars, hpVars, cpVars, rpVars, apVars>>

\* The caller calls the cleanup function pollAnalysisStatus returned.
UaCleanup ==
    /\ uaTimer # "none"
    /\ uaTimer' = "cleared"
    /\ UNCHANGED <<uaAnalysisId, uaOnComplete, uaReqs, uaStarted, uaReturned,
                   uaCompleted, analysisStatus, uaLoading, uaError>>
    /\ UNCHANGED <<svcVars, hpVars, cpVars, rpVars, apVars>>

\* ----------------------------------------------------- AnalysisProgress
\* The effect [analysisId, analysisStatus.status, onComplete] runs for a
\* render with the given prop and status, after the cleanup of the effect
\* before it.  reqs are the requests in flight.
ApEffect(id, status, reqs) ==
    IF status \in {"completed", "failed"}
    THEN /\ Len(apCompleted) < MaxPolls
         /\ apCompleted' = Append(apCompleted, status)
         /\ apTimer' = FALSE
         /\ apReqs' = reqs
         /\ UNCHANGED apRequested
    ELSE /\ Len(apRequested) < MaxPolls
         /\ apReqs' = reqs (+) SetToBag({id})
         /\ apRequested' = Append(apRequested, id)
         /\ apTimer' = TRUE
         /\ UNCHANGED apCompleted

\* The component is mounted with the prop analysisId = id.
ApMount(id) ==
    /\ ~apMounted
    /\ apMounted' = TRUE
    /\ apAnalysisId' = id
    /\ apStatus' = "pending"
    /\ apError' = "null"
    /\ apLoading' = TRUE
    /\ ApEffect(id, "pending", EmptyBag)
    /\ UNCHANGED <<svcVars, hpVars, cpVars, rpVars, uaVars>>

\* The parent passes another analysisId: the state is kept.
ApSetAnalysisId(id) ==
    /\ apMounted /\ id # apAnalysisId
    /\ apAnalysisId' = id
    /\ ApEffect(id, apStatus, apReqs)
    /\ UNCHANGED <<apMounted, apStatus, apError, apLoading>>
    /\ UNCHANGED <<svcVars, hpVars, cpVars, rpVars, uaVars>>

\* The parent re-renders and passes a new onComplete function.
ApSetOnComplete ==
    /\ apMounted
    /\ ApEffect(apAnalysisId, apStatus, apReqs)
    /\ UNCHANGED <<apMounted, apAnalysisId, apStatus, apError, apLoading>>
    /\ UNCHANGED <<svcVars, hpVars, cpVars, rpVars, uaVars>>

\* The interval fires: fetchStatus of the render that set it.
ApTick ==
    /\ apMounted /\ apTimer
    /\ Len(apRequested) < MaxPolls
    /\ apReqs' = apReqs (+) SetToBag({apAnalysisId})
    /\ apRequested' = Append(apRequested, apAnalysisId)
    /\ UNCHANGED <<apMounted, apAnalysisId, apStatus, apError, apLoading, apTimer,
                   apCompleted>>
    /\ UNCHANGED <<svcVars, hpVars, cpVars, rpVars, uaVars>>

\* A request is answered with status s and error e; a changed status
\* re-runs the effect.
ApStatusOk(id, s, e) ==
    /\ apMounted /\ BagIn(id, apReqs)
    /\ apStatus' = s
    /\ apError' = e
    /\ apLoading' = FALSE
    /\ IF s # apStatus
       THEN ApEffect(apAnalysisId, s, apReqs (-) SetToBag({id}))
       ELSE /\ apReqs' = apReqs (-) SetToBag({id})
            /\ UNCHANGED <<apTimer, apRequested, apCompleted>>
    /\ UNCHANGED <<apMounted, apAnalysisId>>
    /\ UNCHANGED <<svcVars, hpVars, cpVars, rpVars, uaVars>>

\* A request fails: the status is kept, the error text is stored.
ApStatusFailed(id) ==
    /\ apMounted /\ BagIn(id, apReqs)
    /\ apReqs' = apReqs (-) SetToBag({id})
    /\ apError' = "fetch"
    /\ apLoading' = FALSE
    /\ UNCHANGED <<apMounted, apAnalysisId, apStatus, apTimer, apRequested,
                   apCompleted>>
    /\ UNCHANGED <<svcVars, hpVars, cpVars, rpVars, uaVars>>

\* The component is unmounted: the effect's cleanup, the state discarded.
ApUnmount ==
    /\ apMounted
    /\ apMounted' = FALSE
    /\ apTimer' = FALSE
    /\ apStatus' = "pending" /\ apError' = "null" /\ apLoading' = TRUE
    /\ apReqs' = EmptyBag
    /\ UNCHANGED <<apAnalysisId, apRequested, apCompleted>>
    /\ UNCHANGED <<svcVars, hpVars, cpVars, rpVars, uaVars>>

\* ---------------------------------------------------------- api-gateway
MaxSegments == 6        \* longest request path, in segments
MaxExchanges == 2       \* requests the gateway serves, one after the other

\* A request URL is its path, a sequence of segments ('/a/b' is <<"a", "b">>,
\* '/' is <<>>), and its query string ("" when there is none).
Segments == {"api", "v1", "source-code", "analysis"}
Paths == UNION {[1..n -> Segments] : n \in 0..MaxSegments}
Queries == {"", "depth=1"}
Methods == {"GET", "POST", "DELETE"}
Url(path, query) == [path |-> path, query |-> query]
NoUrl == Url(<<>>, "")

StartsWith(path, prefix) ==
    Len(path) >= Len(prefix) /\ SubSeq(path, 1, Len(prefix)) = prefix
Drop(path, n) == SubSeq(path, n + 1, Len(path))
\* Router.use(mount, router): a router mounted at a path sees req.url with
\* the mount path removed.
TrimPrefix(url, mount) == Url(Drop(url.path, Len(mount)), url.query)

\* req.url.replace(/^\/api\/v1\/source-code/, ''): a leading
\* '/api/v1/source-code' is cut off the URL the router sees, the query
\* string stays.
proxyReqPathResolver(url) ==
    IF StartsWith(url.path, <<"api", "v1", "source-code">>)
    THEN Url(Drop(url.path, 3), url.query)
    ELSE url

Answer(by, method, url) == [by |-> by, method |-> method, url |-> url]
\* No layer of the router took the request: next() of the parent.
Unhandled == Answer("next", "none", NoUrl)
\* sourceCodeRouter.all('/*', proxy(...)): every method, every path; the
\* proxy sends the request on with the resolved path.
sourceCodeRouter(method, url) == Answer("proxy", method, proxyReqPathResolver(url))
\* apiRouter: the source-code mount, then the information route GET /.
apiRouter(method, url) ==
    IF StartsWith(url.path, <<"v1", "source-code">>)
    THEN sourceCodeRouter(method, TrimPrefix(url, <<"v1", "source-code">>))
    ELSE IF url.path = <<>> /\ method = "GET"
    THEN Answer("apiInfo", "none", NoUrl)
    ELSE Unhandled
\* app: the /api mount, then routeNotFound.  (No path over Segments names
\* /health or /api-docs; the body parsers pass the request on.)
routeNotFound == Answer("routeNotFound", "none", NoUrl)
app(method, url) ==
    IF StartsWith(url.path, <<"api">>)
          /\ apiRouter(method, TrimPrefix(url, <<"api">>)) # Unhandled
    THEN apiRouter(method, TrimPrefix(url, <<"api">>))
    ELSE routeNotFound

NoRequest == [method |-> "none", url |-> NoUrl]
\* The gateway receives a request and answers it.
GwHandle ==
    /\ gwRequest = NoRequest /\ gwServed < MaxExchanges
    /\ \E method \in Methods : \E path \in Paths : \E query \in Queries :
         /\ gwRequest' = [method |-> method, url |-> Url(path, query)]
         /\ gwAnswer' = app(method, Url(path, query))
    /\ UNCHANGED gwServed
    /\ UNCHANGED <<stored, apiVars, acVars, hpVars, cpVars, rpVars, uaVars, apVars>>

\* The exchange is over; the gateway keeps nothing of it.
GwEnd ==
    /\ gwRequest # NoRequest
    /\ gwRequest' = NoRequest
    /\ gwAnswer' = Unhandled
    /\ gwServed' = gwServed + 1
    /\ UNCHANGED <<stored, apiVars, acVars, hpVars, cpVars, rpVars, uaVars, apVars>>

\* --------------------------------------------------------------- useApi
\* A callback argument is left out, returns, or throws.
Callbacks == {"none", "returns", "throws"}
Calls == [onSuccess : Callbacks, onError : Callbacks]
\* response.data: null or a document.
Data == {"null", "doc"}
NotCalled == "not called"

\* The try block throws: apiCall() rejected (or threw), or onSuccess threw.
TryThrows(call, fulfilled) == ~fulfilled \/ call.onSuccess = "throws"
\* err of the catch block: the rejection of apiCall(), else what onSuccess
\* threw.
Caught(fulfilled) == IF fulfilled THEN "thrown by onSuccess" ELSE "request failed"
\* The promise callApi returned: fulfilled with response.data or with null,
\* or rejected with what onError threw inside the catch block.
OutcomeAlwaysResolved(call, fulfilled) == "resolved"
Outcome(call, fulfilled) ==
    IF TryThrows(call, fulfilled) /\ call.onError = "throws"
    THEN "rejected" ELSE "resolved"
Settlement(call, fulfilled, data) ==
    [call |-> call, fulfilled |-> fulfilled, data |-> data,
     onSuccessArg |-> IF fulfilled /\ call.onSuccess # "none" THEN data ELSE NotCalled,
     onErrorArg |-> IF TryThrows(call, fulfilled) /\ call.onError # "none"
                    THEN Caught(fulfilled) ELSE NotCalled,
     outcome |-> Outcome(call, fulfilled),
     value |-> IF ~TryThrows(call, fulfilled) THEN data
               ELSE IF call.onError = "throws" THEN "thrown by onError" ELSE "null"]
NoSettlement == Settlement([onSuccess |-> "none", onError |-> "none"], TRUE, "null")

\* callApi(apiCall, onSuccess, onError) up to its await.
callApi(call) ==
    /\ BagCardinality(apiCalls) < MaxInFlight
    /\ apiLoading' = TRUE
    /\ apiError' = "null"
    /\ apiCalls' = apiCalls (+) SetToBag({call})
    /\ UNCHANGED <<apiSettled, stored, gwVars, acVars, hpVars, cpVars, rpVars, uaVars, apVars>>
\* apiCall() settles and callApi runs to its end: try, catch, finally.
ApiSettle(call, fulfilled, data) ==
    /\ apiCalls' = apiCalls (-) SetToBag({call})
    /\ apiSettled' = Settlement(call, fulfilled, data)
    /\ apiError' = IF TryThrows(call, fulfilled) THEN Caught(fulfilled) ELSE apiError
    /\ apiLoading' = FALSE
    /\ UNCHANGED <<stored, gwVars, acVars, hpVars, cpVars, rpVars, uaVars, apVars>>
ApiFulfilled == \E call \in BagToSet(apiCalls) : \E data \in Data : ApiSettle(call, TRUE, data)
ApiRejected == \E call \in BagToSet(apiCalls) : ApiSettle(call, FALSE, "null")

\* ------------------------------------------------------------ apiClient
\* A string-valued expression is a string, possibly empty, or undefined; a
\* number-valued one is a number, 0 standing for undefined as well.
Undefined == "undefined"
\* a ?? b: only undefined (or null) gives way.
OrNullish(a, b) == IF a # Undefined THEN a ELSE b
\* a || b of strings
Or(a, b) == IF a \notin {Undefined, ""} THEN a ELSE b
\* a || b of numbers
OrNumber(a, b) == IF a # 0 THEN a ELSE b

\* A response body: an object with or without a message (FastAPI's
\* {detail: ...} has none), or no body at all (the empty string).
Messages == {Undefined, "", "Project not found"}
NoBody == [object |-> FALSE, message |-> Undefined]
Body(message) == [object |-> TRUE, message |-> message]
Bodies == {NoBody} \cup {Body(m) : m \in Messages}
EmptyObject == Body(Undefined)
\* validateStatus: axios resolves 2xx and rejects every other status.
OkStatuses == {200, 201}
ErrorStatuses == {404, 422, 500}
Response(status, data) == [status |-> status, data |-> data]
NoResponse == Response(0, NoBody)       \* error.response is undefined
\* An axios error: with the response for a status outside 2xx, without one
\* when the request never got an answer (no connection, timeout).
ErrorMessages == {Undefined, "", "Network Error"}
AxiosErrors ==
    [response : {NoResponse} \cup {Response(st, d) : st \in ErrorStatuses, d \in Bodies},
     message : ErrorMessages]

\* error.response?.status, error.response?.data, error.response?.data?.message
StatusOf(error) == IF error.response = NoResponse THEN 0 ELSE error.response.status
DataOf(error) == IF error.response = NoResponse THEN NoBody ELSE error.response.data
MessageOf(error) == IF error.response = NoResponse THEN Undefined ELSE error.response.data.message
\* The rejected handler of the response interceptor.
customError(error) ==
    [statusCode |-> OrNumber(StatusOf(error), 500),
     message |-> Or(Or(MessageOf(error), error.message), "Unknown error"),
     data |-> IF DataOf(error) = NoBody THEN EmptyObject ELSE DataOf(error),
     originalError |-> error]

Fulfilled(value) == [settled |-> "fulfilled", value |-> value]
Rejected(reason) == [settled |-> "rejected", value |-> reason]
NoOutcome == [settled |-> "pending", value |-> Undefined]

\* apiClient.get / post / delete: a request is sent.
AcRequest(method) ==
    /\ BagCardinality(acReqs) < MaxInFlight
    /\ acReqs' = acReqs (+) SetToBag({method})
    /\ UNCHANGED <<acRaw, acSettled>>
    /\ UNCHANGED <<stored, gwVars, apiVars, hpVars, cpVars, rpVars, uaVars, apVars>>
\* A 2xx answer: response => response.
AcResponse(method, response) ==
    /\ BagIn(method, acReqs)
    /\ acReqs' = acReqs (-) SetToBag({method})
    /\ acRaw' = Fulfilled(response)
    /\ acSettled' = Fulfilled(response)
    /\ UNCHANGED <<stored, gwVars, apiVars, hpVars, cpVars, rpVars, uaVars, apVars>>
\* Any other end of the request: error => Promise.reject(customError).
AcError(method, error) ==
    /\ BagIn(method, acReqs)
    /\ acReqs' = acReqs (-) SetToBag({method})
    /\ acRaw' = Rejected(error)
    /\ acSettled' = Rejected(customError(error))
    /\ UNCHANGED <<stored, gwVars, apiVars, hpVars, cpVars, rpVars, uaVars, apVars>>

\* ------------------------------------------------------- initial state
EmptyDoc == [file_count |-> NoNumber, language_distribution |-> Missing,
             file_summaries |-> Missing]
\* The back end stores documents of the given kind for the analyses 1 and 2.
Stores(Docs) ==
    \E d1, d2 \in Docs :
        stored = [id \in AnalysisIds |->
                    IF id = 1 THEN d1 ELSE IF id = 2 THEN d2 ELSE EmptyDoc]

\* No page is on screen.
InitUI ==
    /\ hpMounted = FALSE /\ hpLoaded = FALSE /\ hpCompleted = {}
    /\ selectedAnalyses = <<>> /\ hpToggled = 0 /\ hpBefore = <<>>
    /\ cpMounted = FALSE /\ cpParam = NoParam /\ cpEffectPending = FALSE
    /\ analyses = <<>> /\ cpLoading = TRUE /\ cpError = "null"
    /\ cpBatches = EmptyBag
    /\ rpMounted = FALSE /\ rpAnalysisId = 1 /\ analysis = "null" /\ results = 0
    /\ rpLoading = TRUE /\ loadingResults = FALSE /\ rpError = FALSE
    /\ rpInterval = 0 /\ rpTimers = {}
    /\ rpStatusReqs = EmptyBag /\ rpResultsReqs = EmptyBag
    /\ uaTimer = "none" /\ uaAnalysisId = 1 /\ uaOnComplete = FALSE
    /\ uaReqs = EmptyBag /\ uaStarted = <<>> /\ uaReturned = <<>>
    /\ uaCompleted = <<>> /\ analysisStatus = "null"
    /\ uaLoading = FALSE /\ uaError = FALSE
    /\ apMounted = FALSE /\ apAnalysisId = 1 /\ apStatus = "pending"
    /\ apError = "null" /\ apLoading = TRUE /\ apTimer = FALSE
    /\ apReqs = EmptyBag /\ apRequested = <<>> /\ apCompleted = <<>>
    /\ gwRequest = NoRequest /\ gwAnswer = Unhandled /\ gwServed = 0
    /\ apiLoading = FALSE /\ apiError = "null" /\ apiCalls = EmptyBag
    /\ apiSettled = NoSettlement
    /\ acReqs = EmptyBag /\ acRaw = NoOutcome /\ acSettled = NoOutcome

Init == Stores({EmptyDoc}) /\ InitUI

\* -------------------------------------------------------- specifications
\* History page and compare page, any location.
NextCompare ==
    \/ HpOpen
    \/ HpAnalysesLoaded
    \/ \E id \in AnalysisIds : toggleAnalysisSelection(id)
    \/ ClearSelection
    \/ handleCompare
    \/ CpOpen
    \/ fetchAnalyses
    \/ CpResolved
    \/ CpRejected
SpecCompare == Init /\ [][NextCompare]_vars

\* The results page.
NextResults ==
    \/ \E id \in ViewedIds : RpOpen(id)
    \/ \E id \in ViewedIds : RpNavigate(id)
    \/ RpTick
    \/ \E r \in BagToSet(rpStatusReqs) : \E s \in Statuses : RpStatusOk(r, s)
    \/ \E r \in BagToSet(rpStatusReqs) : RpStatusFailed(r)
    \/ RpLoadResults
    \/ \E id \in BagToSet(rpResultsReqs) : RpResultsOk(id)
    \/ \E id \in BagToSet(rpResultsReqs) : RpResultsFailed(id)
    \/ RpClose
SpecResults == Init /\ [][NextResults]_vars

\* One poll loop of the useAnalysis hook.
NextPoll ==
    \/ \E id \in ViewedIds : \E cb \in BOOLEAN : pollAnalysisStatus(id, cb)
    \/ UaTick
    \/ \E id \in BagToSet(uaReqs) : \E s \in Statuses : UaPollOk(id, s)
    \/ \E id \in BagToSet(uaReqs) : UaPollFailed(id)
    \/ UaCleanup
SpecPoll == Init /\ [][NextPoll]_vars

\* One AnalysisProgress component.
NextProgress ==
    \/ \E id \in ViewedIds : ApMount(id)
    \/ ApTick
    \/ \E id \in ViewedIds : ApSetAnalysisId(id)
    \/ ApSetOnComplete
    \/ ApUnmount
    \/ \E id \in BagToSet(apReqs) : \E s \in Statuses :
            \E e \in {"null", "server"} : ApStatusOk(id, s, e)
    \/ \E id \in BagToSet(apReqs) : ApStatusFailed(id)
SpecProgress == Init /\ [][NextProgress]_vars

\* The compare page of the analyses 1 and 2.
NextPair ==
    \/ CpOpenPair
    \/ fetchAnalyses
    \/ CpResolved
    \/ CpRejected
\* ... over the language documents,
InitLanguages == Stores(LanguageDocs) /\ InitUI
SpecLanguages == InitLanguages /\ [][NextPair]_vars
\* ... over the percentage documents,
InitPercentages == Stores(PercentageDocs) /\ InitUI
SpecPercentages == InitPercentages /\ [][NextPair]_vars
\* ... over the file summary documents.
InitFiles == Stores(FileDocs) /\ InitUI
SpecFiles == InitFiles /\ [][NextPair]_vars

\* The compare page as the history page opens it: the user selects among
\* the listed analyses and presses Compare.  No two analyses were created
\* at the same time; the ids say nothing about the order of creation.
NextSelect ==
    \/ HpOpen
    \/ HpAnalysesLoaded
    \/ \E id \in AnalysisIds : toggleAnalysisSelection(id)
    \/ ClearSelection
    \/ handleCompare
    \/ fetchAnalyses
    \/ CpResolved
    \/ CpRejected
InitDated ==
    /\ stored \in [AnalysisIds -> DatedDocs]
    /\ \A i, j \in AnalysisIds : i # j => stored[i].created_at # stored[j].created_at
    /\ InitUI
SpecDated == InitDated /\ [][NextSelect]_vars

\* The gateway.
NextGateway ==
    \/ GwHandle
    \/ GwEnd
SpecGateway == Init /\ [][NextGateway]_vars

\* One useApi hook, any callbacks.
NextApi ==
    \/ \E call \in Calls : callApi(call)
    \/ ApiFulfilled
    \/ ApiRejected
SpecApi == Init /\ [][NextApi]_vars

\* The axios client of the web UI.
NextClient ==
    \/ \E method \in Methods : AcRequest(method)
    \/ \E method \in Methods : \E st \in OkStatuses : \E d \in Bodies :
            AcResponse(method, Response(st, d))
    \/ \E method \in Methods : \E error \in AxiosErrors : AcError(method, error)
SpecClient == Init /\ [][NextClient]_vars

\* ---------------------------------------------------------------- claims
Last(seq) == seq[Len(seq)]

\* C1: the results page has at most one polling timer, of 5 seconds, and
\* has one exactly when the status last stored is 'pending' or
\* 'in_progress'; a status request that no effect issued (a periodic one)
\* is issued only while the stored status is one of these.
C1_TimerIffPolling ==
    /\ Cardinality(rpTimers) <= 1
    /\ \A t \in rpTimers : t.period = 5000
    /\ rpMounted => (rpTimers # {} <=> analysis \in {"pending", "in_progress"})
    /\ ~rpMounted => rpTimers = {}
C1_PeriodicOnlyWhilePolling ==
    (/\ rpMounted /\ rpMounted'
     /\ rpAnalysisId' = rpAnalysisId /\ analysis' = analysis
     /\ BagCardinality(rpStatusReqs') > BagCardinality(rpStatusReqs)) =>
        analysis \in {"pending", "in_progress"}
C1_PollingTimer == [](C1_TimerIffPolling) /\ [][C1_PeriodicOnlyWhilePolling]_vars
C1_Witness ==
    /\ rpMounted /\ analysis = "in_progress"
    /\ Cardinality(rpTimers) = 1
    /\ BagCardinality(rpStatusReqs) = 2      \* the effect's and a periodic one

\* C2: a poll that returns 'completed' or 'failed' clears the timer and
\* calls onComplete (if given) with that status; a poll that returns another
\* status or null leaves the timer as it is; once the timer is cleared, by a
\* terminal status or by the cleanup function, no status request is started;
\* every request is for the analysisId passed.
C2_PollReturned ==
    (Len(uaReturned') = Len(uaReturned) + 1) =>
        IF Last(uaReturned') \in {"completed", "failed"}
        THEN /\ uaTimer' = "cleared"
             /\ uaCompleted' = IF uaOnComplete
                                THEN Append(uaCompleted, Last(uaReturned'))
                                ELSE uaCompleted
        ELSE /\ uaTimer' = uaTimer
             /\ uaCompleted' = uaCompleted
C2_NoRequestAfterClear ==
    (uaTimer = "cleared") => (uaTimer' = "cleared" /\ uaStarted' = uaStarted)
C2_CleanupClears ==
    (UaCleanup) => (uaTimer' = "cleared")
C2_RequestsTheAnalysis ==
    \A i \in 1..Len(uaStarted) : uaStarted[i] = uaAnalysisId
C2_Polling ==
    /\ [](C2_RequestsTheAnalysis)
    /\ [][C2_PollReturned /\ C2_NoRequestAfterClear /\ C2_CleanupClears]_vars
C2_Witness ==
    /\ uaTimer = "cleared" /\ uaOnComplete
    /\ Len(uaReturned) = 3
    /\ uaReturned[1] = "null" /\ uaReturned[2] = "running" /\ uaReturned[3] = "failed"
    /\ uaCompleted = <<"failed">>

\* C3: AnalysisProgress requests the status of the analysis named by its
\* analysisId prop at once when it is given that prop, and from the moment
\* the stored status is 'completed' or 'failed' it issues no further status
\* request and has called onComplete with that status.
C3_RequestedAtOnce ==
    (apMounted' /\ (~apMounted \/ apAnalysisId' # apAnalysisId)) =>
        /\ Len(apRequested') = Len(apRequested) + 1
        /\ Last(apRequested') = apAnalysisId'
C3_NoneAfterFinal ==
    (apMounted /\ apMounted' /\ apStatus \in {"completed", "failed"}) =>
        apRequested' = apRequested
C3_CompletedReported ==
    (apMounted /\ apStatus \in {"completed", "failed"}) =>
        (apCompleted # <<>> /\ Last(apCompleted) = apStatus)
C3_ProgressPolling ==
    /\ [](C3_CompletedReported)
    /\ [][C3_RequestedAtOnce /\ C3_NoneAfterFinal]_vars

Distinct(seq) == \A i, j \in 1..Len(seq) : i # j => seq[i] # seq[j]
Elements(seq) == {seq[i] : i \in 1..Len(seq)}
CommaCount(s) == Cardinality({i \in 1..Len(s) : s[i] = Comma})

\* C4: selectedAnalyses holds at most two ids and no id twice; a toggle of a
\* selected id removed exactly that id and kept the other.
C4_SelectionAtMostTwo ==
    /\ Len(selectedAnalyses) <= 2
    /\ Distinct(selectedAnalyses)
    /\ (hpToggled # 0 /\ hpToggled \in Elements(hpBefore)) =>
          /\ Len(selectedAnalyses) = Len(hpBefore) - 1
          /\ Elements(selectedAnalyses) = Elements(hpBefore) \ {hpToggled}
C4_Witness ==
    /\ hpMounted /\ hpToggled # 0
    /\ Len(hpBefore) = 2 /\ hpToggled \in Elements(hpBefore)
    /\ Len(selectedAnalyses) = 1

\* C5: a toggle of an unselected id c while [a, b] was selected left [b, c].
C5_OldestReplaced ==
    (hpToggled # 0 /\ Len(hpBefore) = 2 /\ hpToggled \notin Elements(hpBefore)) =>
        selectedAnalyses = <<hpBefore[2], hpToggled>>
C5_Witness ==
    /\ hpMounted /\ hpToggled # 0
    /\ Len(hpBefore) = 2 /\ hpToggled \notin Elements(hpBefore)
    /\ Len(selectedAnalyses) = 2

\* C6: handleCompare navigates only with exactly two ids selected, to
\* ids=<a>,<b>; the compare page of an ids parameter that does not consist of
\* two comma-separated parts has the error 'Please select two analyses to
\* compare', is not loading and has issued no results request.
TwoParts(param) == param # NoParam /\ CommaCount(param) = 1
C6_NoRequest ==
    (cpMounted /\ ~TwoParts(cpParam)) =>
        /\ cpBatches = EmptyBag
        /\ analyses = <<>>
        /\ \/ cpError = "select_two" /\ ~cpLoading
           \/ cpEffectPending /\ cpError = "null" /\ cpLoading   \* effect not run yet
C6_Navigation ==
    (handleCompare /\ cpMounted') =>
        /\ Len(selectedAnalyses) = 2
        /\ cpParam' = <<selectedAnalyses[1], Comma, selectedAnalyses[2]>>
        /\ Split(cpParam') = <<<<selectedAnalyses[1]>>, <<selectedAnalyses[2]>>>>
DistKeys(doc) == {e[1] : e \in Elements(doc.language_distribution.entries)}
DistCount(doc, language) ==
    IF language \in DistKeys(doc)
    THEN (CHOOSE e \in Elements(doc.language_distribution.entries) : e[1] = language)[2]
    ELSE 0

\* C7: compareLanguages has exactly one entry for each language of either
\* distribution, with the two counts (0 when absent) and diff = second -
\* first; it is empty unless two analyses are loaded.
C7_OneEntryPerLanguage ==
    LET r == compareLanguages
    IN  IF Len(analyses) # 2 THEN r = <<>>
        ELSE /\ \A l \in Languages :
                    Cardinality({i \in 1..Len(r) : r[i].language = l}) =
                        IF l \in DistKeys(analyses[1]) \cup DistKeys(analyses[2])
                        THEN 1 ELSE 0
             /\ \A i \in 1..Len(r) :
                    /\ r[i].language \in Languages
                    /\ r[i].counts = <<DistCount(analyses[1], r[i].language),
                                       DistCount(analyses[2], r[i].language)>>
                    /\ r[i].diff = r[i].counts[2] - r[i].counts[1]
C7_Witness ==
    /\ cpMounted /\ Len(analyses) = 2
    /\ \E l, m \in Languages :
          /\ l \in DistKeys(analyses[1]) \cap DistKeys(analyses[2])
          /\ m \in DistKeys(analyses[2]) \ DistKeys(analyses[1])
          /\ DistCount(analyses[1], l) > DistCount(analyses[2], l)
    /\ Len(compareLanguages) = 2

\* C8: compareLanguages is ordered by |diff| descending, and by the first
\* count descending where |diff| is equal.
C8_OrderedByDifference ==
    LET r == compareLanguages
    IN  \A i, j \in 1..Len(r) :
            i < j => \/ Abs(r[i].counts[2] - r[i].counts[1]) >
                           Abs(r[j].counts[2] - r[j].counts[1])
                     \/ /\ Abs(r[i].counts[2] - r[i].counts[1]) =
                              Abs(r[j].counts[2] - r[j].counts[1])
                        /\ r[i].counts[1] >= r[j].counts[1]
C8_Witness ==
    /\ cpMounted /\ Len(analyses) = 2
    /\ Len(compareLanguages) = 2
    /\ Abs(compareLanguages[1].diff) = Abs(compareLanguages[2].diff)
    /\ compareLanguages[1].counts[1] > compareLanguages[2].counts[1]
    \* the order of the keys alone would have put them the other way round
    /\ ObjectKeys(analyses[1].language_distribution) =
            <<compareLanguages[2].language, compareLanguages[1].language>>

\* C9: a percentage is count / file_count x 100 rounded to one decimal, and
\* 0 when the language is absent or file_count is missing or zero.
C9_Percentages ==
    LET r == compareLanguages
    IN  \A i \in 1..Len(r) : \A k \in 1..2 :
            LET doc == analyses[k]
                p == r[i].percentages[k]        \* tenths of a percent
                c == DistCount(doc, r[i].language)
            IN  IF \/ r[i].language \notin DistKeys(doc)
                   \/ doc.file_count = NoNumber
                   \/ doc.file_count = 0
                THEN p = 0
                ELSE 2 * Abs(p * doc.file_count - 1000 * c) <= doc.file_count
C9_Witness ==
    /\ cpMounted /\ Len(analyses) = 2 /\ Len(compareLanguages) = 1
    /\ analyses[1].file_count = 3
    /\ DistCount(analyses[1], compareLanguages[1].language) = 2
    /\ compareLanguages[1].percentages[1] = 667
    /\ analyses[2].file_count = 0
    /\ DistCount(analyses[2], compareLanguages[1].language) = 1
    /\ compareLanguages[1].percentages[2] = 0

\* C10: the Code Quality section lists side by side (the first 5 of) the
\* keys of both file_summaries maps, as new (the first 6 of) the keys of the
\* second only, as removed (the first 6 of) the keys of the first only; no
\* file is both side by side and new or removed.
SummaryKeys(doc) == ObjectKeys(doc.file_summaries)
C10_FileLists ==
    CodeQualityShown =>
        LET k0 == SummaryKeys(analyses[1])
            k1 == SummaryKeys(analyses[2])
        IN  /\ CommonFiles = Slice(Filter(k0, LAMBDA f : f \in Elements(k1)), CommonLimit)
            /\ NewFiles = Slice(Filter(k1, LAMBDA f : f \notin Elements(k0)), ListLimit)
            /\ RemovedFiles = Slice(Filter(k0, LAMBDA f : f \notin Elements(k1)), ListLimit)
            /\ Elements(CommonFiles) \cap (Elements(NewFiles) \cup Elements(RemovedFiles)) = {}


\* C11: on the compare page opened from the history page, whatever the
\* order in which the two analyses were selected, the analysis at index 1
\* ('After', 'New Files', the minuend of every difference) was created
\* later than the analysis at index 0 ('Before', 'Removed Files').
C11_AfterIsNewer ==
    (cpMounted /\ Len(analyses) = 2) =>
        analyses[1].created_at < analyses[2].created_at


\* C12: a request of any method whose path is /api/v1/source-code/<rest> is
\* sent on by the proxy with the same method, the path /<rest> and the same
\* query string; routeNotFound does not answer it.
SourceCodePrefix == <<"api", "v1", "source-code">>
C12_PrefixRemoved ==
    StartsWith(gwRequest.url.path, SourceCodePrefix) =>
        gwAnswer = Answer("proxy", gwRequest.method,
                          Url(Drop(gwRequest.url.path, 3), gwRequest.url.query))


\* C13: callApi never rejects; when apiCall() succeeds it calls onSuccess
\* (if given) with response.data and resolves to response.data; when it
\* fails it stores the error, calls onError (if given) and resolves to null;
\* a call starts by setting loading and clearing error; loading is false
\* once a call has settled.
C13_SettledAsStated ==
    LET c == apiSettled IN
    /\ c.outcome = "resolved"
    /\ c.fulfilled =>
         /\ c.onSuccessArg = IF c.call.onSuccess = "none" THEN NotCalled ELSE c.data
         /\ c.value = c.data
    /\ ~c.fulfilled =>
         /\ c.onErrorArg = IF c.call.onError = "none" THEN NotCalled
                           ELSE "request failed"
         /\ c.value = "null"
C13_Started ==
    (\E call \in Calls : callApi(call)) => (apiLoading' /\ apiError' = "null")
C13_Ended ==
    (BagCardinality(apiCalls') < BagCardinality(apiCalls)) =>
        /\ ~apiLoading'
        /\ ~apiSettled'.fulfilled => apiError' = "request failed"
C13_NeverRejects == [](C13_SettledAsStated) /\ [][C13_Started /\ C13_Ended]_vars
\* C13 as amended: the same for callbacks that return.  An exception thrown
\* by onSuccess is handled like a failed request: it is stored as the error,
\* passed to onError, and the call resolves to null although the request
\* succeeded.  An exception thrown by onError rejects the call.
C13_SettledAmended ==
    LET c == apiSettled
        failed == ~c.fulfilled \/ c.call.onSuccess = "throws"
        err == IF c.fulfilled THEN "thrown by onSuccess" ELSE "request failed"
    IN
    /\ c.onSuccessArg = IF c.fulfilled /\ c.call.onSuccess # "none"
                        THEN c.data ELSE NotCalled
    /\ ~failed =>
         /\ c.outcome = "resolved" /\ c.value = c.data
         /\ c.onErrorArg = NotCalled
    /\ failed =>
         /\ c.onErrorArg = IF c.call.onError = "none" THEN NotCalled ELSE err
         /\ IF c.call.onError = "throws"
            THEN c.outcome = "rejected" /\ c.value = "thrown by onError"
            ELSE c.outcome = "resolved" /\ c.value = "null"
C13_EndedAmended ==
    (BagCardinality(apiCalls') < BagCardinality(apiCalls)) =>
        /\ ~apiLoading'
        /\ LET c == apiSettled' IN
           apiError' = IF ~c.fulfilled THEN "request failed"
                       ELSE IF c.call.onSuccess = "throws" THEN "thrown by onSuccess"
                       ELSE apiError
C13_RejectsOnlyFromOnError ==
    [](C13_SettledAmended) /\ [][C13_Started /\ C13_EndedAmended]_vars
C13_Witness ==
    /\ ~apiSettled.fulfilled /\ apiSettled.call.onError = "throws"
    /\ apiSettled.outcome = "rejected"
    /\ ~apiLoading /\ apiError = "request failed"
    /\ apiCalls # EmptyBag


\* C14: the results page shows the tabs, and with them the 'Analysis is
\* complete' / Load Results content, only when the status stored is
\* 'completed'; for every other status, when no error is stored, it shows
\* the progress view or the failure view.
C14_TabsOnlyWhenCompleted ==
    /\ View = "tabs" => analysis = "completed"
    /\ (rpMounted /\ ~rpError /\ analysis \in Statuses \ {"completed"}) =>
            View \in {"in progress", "failed"}


\* C15: when a status request for the analysis on screen is answered with
\* 'completed' while the page holds no results of that analysis, the page
\* issues a results request for it by itself; a results request that
\* succeeds is stored as the page's results.
C15_RequestedWhenCompleted ==
    \A r \in BagToSet(rpStatusReqs) :
        (/\ RpStatusOk(r, "completed")
         /\ r.id = rpAnalysisId
         /\ results # rpAnalysisId) =>
            CopiesIn(rpAnalysisId, rpResultsReqs') =
                CopiesIn(rpAnalysisId, rpResultsReqs) + 1
C15_ResponseStored ==
    \A id \in BagToSet(rpResultsReqs) : RpResultsOk(id) => results' = id
C15_ResultsLoaded == [][C15_RequestedWhenCompleted /\ C15_ResponseStored]_vars


====
